---- MODULE Spec2Model ----
(***************************************************************************)
(* Model of src/app.py: the Streamlit "AI potential portrait" page.        *)
(* One script run is one action: a form submission (main, lines 521-577)   *)
(* or a page load carrying a share_id query parameter (main, lines         *)
(* 427-446).  The Google Sheet and the DeepSeek endpoint are the           *)
(* environment: their outcomes are chosen per call.                        *)
(*                                                                         *)
(* Python values are tagged records [t, n, s]: t is the type tag, n the    *)
(* integer payload, s the string payload (a sequence of one-character      *)
(* strings, so that strip() and int() are computed, not assumed).          *)
(***************************************************************************)
EXTENDS Integers, Sequences, FiniteSets, TLC

\* Number of share identifiers (uuid4 values) the model lets the page generate.
MaxIds == 2

----------------------------------------------------------------------------
(* Python scalars *)

Absent == [t |-> "absent", n |-> 0, s |-> <<>>]
JNull == [t |-> "null", n |-> 0, s |-> <<>>]
DictMark == [t |-> "dict", n |-> 0, s |-> <<>>]
JInt(i) == [t |-> "int", n |-> i, s |-> <<>>]
JStr(str) == [t |-> "str", n |-> 0, s |-> str]

\* '' as used for the row defaults at lines 557-562
EmptyStr == JStr(<<>>)

Whitespace == {" "}
Digits == {"0", "5", "8"}
DigitVal(c) == CASE c = "0" -> 0 [] c = "5" -> 5 [] c = "8" -> 8 [] OTHER -> 0

\* str.lstrip(): drop leading whitespace
RECURSIVE LStrip(_)
LStrip(str) ==
    IF str # <<>> /\ Head(str) \in Whitespace THEN LStrip(Tail(str)) ELSE str

\* str.rstrip(): drop trailing whitespace
RECURSIVE RStrip(_)
RStrip(str) ==
    IF str # <<>> /\ str[Len(str)] \in Whitespace
    THEN RStrip(SubSeq(str, 1, Len(str) - 1))
    ELSE str

\* str.strip() as called at lines 530-531
Strip(str) == RStrip(LStrip(str))

\* value of a string of decimal digits
RECURSIVE DigitsToInt(_)
DigitsToInt(str) ==
    IF str = <<>> THEN 0
    ELSE 10 * DigitsToInt(SubSeq(str, 1, Len(str) - 1)) + DigitVal(str[Len(str)])

\* whether int(str) succeeds: digits only, after surrounding whitespace is dropped
IsIntLiteral(str) ==
    /\ Strip(str) # <<>>
    /\ \A i \in 1..Len(Strip(str)) : Strip(str)[i] \in Digits

\* lines 337-341: try int(v) except (ValueError, TypeError): 0
IntOrZero(v) ==
    CASE v.t = "int" -> v
      [] v.t = "str" /\ IsIntLiteral(v.s) -> JInt(DigitsToInt(Strip(v.s)))
      [] OTHER -> JInt(0)

----------------------------------------------------------------------------
(* Python dicts: the API result and a sheet record *)

\* the four score keys, in the order of lines 154-157
ScoreKeys == <<"innovation", "collaboration", "leadership", "tech_acumen">>
ScoreKeySet == {ScoreKeys[i] : i \in 1..Len(ScoreKeys)}

\* header row of the worksheet: the column of each position of data_row
\* (lines 549-563), under the names the page reads back (lines 140, 316,
\* 331-334, 354, 436)
Header ==
    <<"timestamp", "share_id", "user_name",
      "innovation_input", "collaboration_input", "leadership_input",
      "tech_acumen_input",
      "innovation_score", "collaboration_score", "leadership_score",
      "tech_acumen_score", "analysis_text", "golden_sentence">>

Keys == {Header[i] : i \in 1..Len(Header)} \cup {"scores", "analysis"}

\* a dict with no key
EmptyScores == [k \in ScoreKeySet |-> Absent]
EmptyDict == [f |-> [k \in Keys |-> Absent], sd |-> EmptyScores]

\* dict.get(key, default)
Get(d, key, default) == IF d[key].t = "absent" THEN default ELSE d[key]

\* a JSON object with (some of) the keys scores / analysis / golden_sentence;
\* sd holds the members of "scores" when that value is itself an object
ApiDict(scores, sd, analysis, golden) ==
    [f |-> [k \in Keys |->
              CASE k = "scores" -> scores
                [] k = "analysis" -> analysis
                [] k = "golden_sentence" -> golden
                [] OTHER -> Absent],
     sd |-> sd]

\* a Python value as returned by json.loads: a dict, a list of n items, None
NoneVal == [kind |-> "none", n |-> 0, m |-> EmptyDict]
ListVal(len) == [kind |-> "list", n |-> len, m |-> EmptyDict]
DictVal(d) == [kind |-> "dict", n |-> 0, m |-> d]

\* bool(value) as tested at lines 434 and 545
Truthy(v) ==
    CASE v.kind = "dict" -> \E k \in Keys : v.m.f[k].t # "absent"
      [] v.kind = "list" -> v.n > 0
      [] OTHER -> FALSE

----------------------------------------------------------------------------
(* The model's replies (the environment of call_deepseek_api) *)

ScoresOf(a, b, c, d) ==
    [k \in ScoreKeySet |->
        CASE k = "innovation" -> a
          [] k = "collaboration" -> b
          [] k = "leadership" -> c
          [] k = "tech_acumen" -> d]

TextA == JStr(<<"o", "k">>)
TextG == JStr(<<"g", "o">>)

\* the reply the system prompt asks for (lines 231-240)
WellFormed ==
    DictVal(ApiDict(DictMark, ScoresOf(JInt(90), JInt(75), JInt(60), JInt(85)),
                    TextA, TextG))
\* scores as text, null, not a number, missing; no analysis, no slogan
Sloppy ==
    DictVal(ApiDict(DictMark,
                    ScoresOf(JStr(<<" ", "8", "5">>), JNull, JStr(<<"a">>), Absent),
                    Absent, Absent))
\* an empty scores object and empty texts
Blank == DictVal(ApiDict(DictMark, EmptyScores, EmptyStr, EmptyStr))
\* an object with no "scores" member
NoScores == DictVal(ApiDict(Absent, EmptyScores, TextA, TextG))
\* "scores" is a number, not an object
ScalarScores == DictVal(ApiDict(JInt(5), EmptyScores, TextA, TextG))
\* {}
EmptyObject == DictVal(EmptyDict)

ParsedValues ==
    {WellFormed, Sloppy, Blank, NoScores, ScalarScores, EmptyObject,
     ListVal(0), ListVal(1), NoneVal}

\* The reply text is a sequence of tokens: a JSON document, whitespace, or
\* prose / code-fence characters that are not JSON.
Json(v) == [tok |-> "json", val |-> v]
Ws == [tok |-> "ws", val |-> NoneVal]
Prose == [tok |-> "prose", val |-> NoneVal]

ResponseTexts ==
    {<<Json(v)>> : v \in ParsedValues}
    \cup {<<Ws, Json(WellFormed), Ws>>,
          <<Prose, Json(WellFormed), Prose>>,
          <<Prose, Json(Sloppy)>>,
          <<Prose>>,
          <<>>}

\* leading / trailing whitespace tokens dropped
RECURSIVE SkipWs(_)
SkipWs(text) ==
    IF text # <<>> /\ Head(text).tok = "ws" THEN SkipWs(Tail(text))
    ELSE IF text # <<>> /\ text[Len(text)].tok = "ws"
         THEN SkipWs(SubSeq(text, 1, Len(text) - 1))
         ELSE text

\* json.loads(text), line 281: succeeds iff the text is exactly one JSON
\* document, whitespace around it allowed; otherwise JSONDecodeError
JsonLoads(text) ==
    IF Len(SkipWs(text)) = 1 /\ SkipWs(text)[1].tok = "json"
    THEN [ok |-> TRUE, val |-> SkipWs(text)[1].val]
    ELSE [ok |-> FALSE, val |-> NoneVal]

\* outcomes of requests.post / raise_for_status / response.json (lines 274-278)
HttpOutcomes == {"ok", "transport_error", "bad_envelope"}

\* call_deepseek_api sending the request before it looks at the key
call_deepseek_api_post_first(key, outcome, text) ==
    IF key = ""
    THEN [result |-> NoneVal, msgs |-> {"err_api_key"}, requests |-> 1]
    ELSE IF outcome = "transport_error"
    THEN [result |-> NoneVal, msgs |-> {"err_network"}, requests |-> 1]
    ELSE IF outcome = "bad_envelope"
    THEN [result |-> NoneVal, msgs |-> {"err_unknown"}, requests |-> 1]
    ELSE IF JsonLoads(text).ok
    THEN [result |-> JsonLoads(text).val, msgs |-> {}, requests |-> 1]
    ELSE [result |-> NoneVal, msgs |-> {"err_json", "info_raw"}, requests |-> 1]

\* call_deepseek_api, lines 201-293: the value returned, the messages shown,
\* and the number of HTTP requests issued
call_deepseek_api(key, outcome, text) ==
    IF key = ""
    THEN [result |-> NoneVal, msgs |-> {"err_api_key"}, requests |-> 0]
    ELSE IF outcome = "transport_error"
    THEN [result |-> NoneVal, msgs |-> {"err_network"}, requests |-> 1]
    ELSE IF outcome = "bad_envelope"
    THEN [result |-> NoneVal, msgs |-> {"err_unknown"}, requests |-> 1]
    ELSE IF JsonLoads(text).ok
    THEN [result |-> JsonLoads(text).val, msgs |-> {}, requests |-> 1]
    ELSE [result |-> NoneVal, msgs |-> {"err_json", "info_raw"}, requests |-> 1]

----------------------------------------------------------------------------
(* Record store: the worksheet behind get_worksheet() *)

\* outcomes of one sheet call: the call works, append_row / get_all_records
\* raises, or get_worksheet reports the sheet unavailable and calls st.stop()
SheetOutcomes == {"ok", "raise", "stop"}

\* what sheet.get_all_records() (line 138, called with its defaults) gives
\* for a cell that append_row (line 123) wrote: None leaves the cell empty
\* and an empty cell reads as '', text that int() accepts reads as that
\* integer, any other text and any integer read as written
numericise(v) ==
    CASE v.t \in {"null", "absent"} -> EmptyStr
      [] v.t = "str" /\ IsIntLiteral(v.s) -> JInt(DigitsToInt(Strip(v.s)))
      [] OTHER -> v

\* one row of get_all_records(): the cells keyed by the header row
RecordOf(row) ==
    [f |-> [k \in Keys |->
              IF \E j \in 1..Len(Header) : Header[j] = k
              THEN numericise(row[CHOOSE j \in 1..Len(Header) : Header[j] = k])
              ELSE Absent],
     sd |-> EmptyScores]

\* lines 138-142: the first record whose share_id equals the one asked for
RECURSIVE ScanRecords(_, _)
ScanRecords(rows, sid) ==
    IF rows = <<>> THEN NoneVal
    ELSE IF Get(RecordOf(Head(rows)).f, "share_id", JNull) = sid
         THEN DictVal(RecordOf(Head(rows)))
         ELSE ScanRecords(Tail(rows), sid)

\* get_record_by_share_id, lines 131-146
get_record_by_share_id(rows, outcome, sid) ==
    CASE outcome = "stop" ->
           [record |-> NoneVal, msgs |-> {"err_sheet_unavailable"}, stop |-> TRUE]
      [] outcome = "raise" ->
           [record |-> NoneVal, msgs |-> {"err_sheet_lookup"}, stop |-> FALSE]
      [] OTHER ->
           [record |-> ScanRecords(rows, sid), msgs |-> {}, stop |-> FALSE]

\* append_to_sheet writing the row a second time after a successful write
append_to_sheet_twice(rows, outcome, data_row) ==
    CASE outcome = "stop" ->
           [ok |-> FALSE, rows |-> rows, msgs |-> {"err_sheet_unavailable"},
            stop |-> TRUE]
      [] outcome = "raise" ->
           [ok |-> FALSE, rows |-> rows, msgs |-> {"err_sheet_write"},
            stop |-> FALSE]
      [] OTHER ->
           [ok |-> TRUE, rows |-> Append(Append(rows, data_row), data_row),
            msgs |-> {}, stop |-> FALSE]

\* append_to_sheet, lines 116-128
append_to_sheet(rows, outcome, data_row) ==
    CASE outcome = "stop" ->
           [ok |-> FALSE, rows |-> rows, msgs |-> {"err_sheet_unavailable"},
            stop |-> TRUE]
      [] outcome = "raise" ->
           [ok |-> FALSE, rows |-> rows, msgs |-> {"err_sheet_write"},
            stop |-> FALSE]
      [] OTHER ->
           [ok |-> TRUE, rows |-> Append(rows, data_row), msgs |-> {},
            stop |-> FALSE]

----------------------------------------------------------------------------
(* Chart and presentation *)

\* the axis labels of line 152, in order
categories ==
    <<"innovation_index", "collaboration_potential", "leadership_traits",
      "tech_sensitivity">>

\* create_radar_chart closing the polygon with the last point, not the first
create_radar_chart_last(scores, name) ==
    LET values == [i \in 1..4 |-> Get(scores, ScoreKeys[i], JInt(0))]
    IN  [r |-> values \o <<values[4]>>,
         theta |-> categories \o <<categories[4]>>,
         name |-> name]

\* create_radar_chart, lines 148-174: the polar trace (r, theta)
create_radar_chart(scores, name) ==
    LET values == [i \in 1..4 |-> Get(scores, ScoreKeys[i], JInt(0))]
    IN  [r |-> values \o <<values[1]>>,
         theta |-> categories \o <<categories[1]>>,
         name |-> name]

\* fallback texts of lines 316, 354, 436 and the 'N/A' of lines 348-351
DefaultGolden == JStr(<<"G">>)
DefaultAnalysis == JStr(<<"A">>)
Anonymous == JStr(<<"?">>)
NotAvailable == JStr(<<"N", "/", "A">>)

ScoreColumn(k) ==
    CASE k = "innovation" -> "innovation_score"
      [] k = "collaboration" -> "collaboration_score"
      [] k = "leadership" -> "leadership_score"
      [] k = "tech_acumen" -> "tech_acumen_score"

\* lines 326-341: the scores dict after the integer coercion loop; a key
\* that is not in the dict stays out of it
NormalizeScores(data) ==
    LET scores ==
          IF data.f["scores"].t = "dict"
          THEN data.sd
          ELSE [k \in ScoreKeySet |-> Get(data.f, ScoreColumn(k), JInt(0))]
    IN  [k \in ScoreKeySet |->
            IF scores[k].t = "absent" THEN Absent ELSE IntOrZero(scores[k])]

\* lines 328 and 337-341: scores = analysis_result_data['scores'] is the
\* caller's own dict, so the coercion loop rewrites the caller's data; a flat
\* sheet record gets a new scores dict and is left as it was
CoerceInPlace(data) ==
    IF data.f["scores"].t = "dict"
    THEN [data EXCEPT !.sd = NormalizeScores(data)]
    ELSE data

\* outcomes of fig.to_image (line 301) and of the qrcode calls (lines 391-403)
ImageOutcomes == {"ok", "raise"}
QrOutcomes == {"ok", "raise"}

\* convert_plotly_to_bytes, lines 295-306: whether bytes came back, and the
\* messages shown when the export raised
convert_plotly_to_bytes(img) ==
    IF img = "ok"
    THEN [bytes |-> TRUE, msgs |-> {}]
    ELSE [bytes |-> FALSE, msgs |-> {"err_image_export", "warn_kaleido"}]

NoFigure == [r |-> <<>>, theta |-> <<>>, name |-> Absent]
NoPortrait ==
    [shown |-> FALSE, user_name |-> Absent, golden_sentence |-> Absent,
     fig |-> NoFigure, metrics |-> EmptyScores, analysis_text |-> Absent,
     download |-> FALSE, share_id |-> Absent, qr |-> FALSE]

\* display_portrait_results, lines 309-412: what is put on the page, the
\* messages shown on the way, and the caller's data as the call leaves it
display_portrait_results(current_user_name, data, current_share_id, img, qr) ==
    LET scores == NormalizeScores(data)
        link == current_share_id.t = "str" /\ current_share_id.s # <<>>
    IN  [portrait |->
           [shown |-> TRUE,
            user_name |-> current_user_name,
            golden_sentence |-> Get(data.f, "golden_sentence", DefaultGolden),
            fig |-> create_radar_chart(scores, current_user_name),
            metrics |-> [k \in ScoreKeySet |-> Get(scores, k, NotAvailable)],
            analysis_text |->
               Get(data.f, "analysis",
                   Get(data.f, "analysis_text", DefaultAnalysis)),
            download |-> convert_plotly_to_bytes(img).bytes,
            share_id |-> IF link THEN current_share_id ELSE Absent,
            qr |-> link /\ qr = "ok"],
         msgs |->
            convert_plotly_to_bytes(img).msgs \cup
            (IF link /\ qr = "raise" THEN {"warn_qr"} ELSE {}),
         data |-> CoerceInPlace(data)]

----------------------------------------------------------------------------
(* State *)

VARIABLES
    store,            \* data rows of the worksheet, oldest first
    next_uuid,        \* how many share identifiers uuid4() has produced, plus 1
    api_key,          \* st.secrets["DEEPSEEK_API_KEY"], "" when not configured
    path,             \* what the last script run was: "idle", "form", "submit", "share"
    share_id,         \* the share_id query parameter of the run
    user_name,        \* current_user_name_value
    user_inputs,      \* the four current_*_value answers
    http,             \* outcome of the HTTP request of the run, "none" if not sent
    http_requests,    \* HTTP requests sent to the LLM endpoint in the run
    response_text,    \* the reply text bound at line 278
    analysis_result,  \* main's analysis_result when the run ends
    sheet,            \* outcome of the sheet call of the run, "none" if not made
    portrait_data,    \* what get_record_by_share_id returned (line 433)
    appended,         \* rows appended to the worksheet in the run
    messages,         \* st.error / st.warning / st.success / st.info shown
    portrait,         \* what display_portrait_results put on the page
    fault,            \* the exception that escaped main, "none" if none did
    form_rendered     \* whether the profile form was rendered

vars ==
    <<store, next_uuid, api_key, path, share_id, user_name, user_inputs, http,
      http_requests, response_text, analysis_result, sheet, portrait_data,
      appended, messages, portrait, fault, form_rendered>>

Chr == <<"1", "2", "3", "4", "5", "6", "7", "8", "9">>

\* str(uuid.uuid4()), line 546: the n-th identifier produced
Uuid(n) == JStr(<<"u", Chr[n]>>)

\* datetime.now().strftime(...), line 550
Timestamps == {JStr(<<"t", "1">>)}

\* the nickname box: empty, or a nickname
UserNames == {<<>>, <<"n">>}

\* what can be typed into each text area: nothing, blanks, an answer
AnswersFor(k) ==
    {<<>>, <<" ">>,
     CASE k = "innovation" -> <<" ", "i">>
       [] k = "collaboration" -> <<"c", " ">>
       [] k = "leadership" -> <<"l">>
       [] k = "tech_acumen" -> <<"t", " ", "a">>}

UserInputs ==
    {ui \in [ScoreKeySet -> UNION {AnswersFor(k) : k \in ScoreKeySet}] :
        \A k \in ScoreKeySet : ui[k] \in AnswersFor(k)}

NoInputs == [k \in ScoreKeySet |-> <<>>]

\* the share_id query parameters a page load can carry: none, an empty one,
\* any identifier produced so far or not yet
QueryParams == {Absent, EmptyStr} \cup {Uuid(n) : n \in 1..(MaxIds + 1)}

\* a run that has done nothing yet
Fresh(p) ==
    [path |-> p, share_id |-> Absent, user_name |-> <<>>, user_inputs |-> NoInputs,
     http |-> "none", http_requests |-> 0, response_text |-> <<>>,
     analysis_result |-> NoneVal, sheet |-> "none", portrait_data |-> NoneVal,
     appended |-> 0,
     messages |-> {}, portrait |-> NoPortrait, fault |-> "none",
     form_rendered |-> FALSE]

\* the run ends in r
Finish(r) ==
    /\ path' = r.path
    /\ share_id' = r.share_id
    /\ user_name' = r.user_name
    /\ user_inputs' = r.user_inputs
    /\ http' = r.http
    /\ http_requests' = r.http_requests
    /\ response_text' = r.response_text
    /\ analysis_result' = r.analysis_result
    /\ sheet' = r.sheet
    /\ portrait_data' = r.portrait_data
    /\ appended' = r.appended
    /\ messages' = r.messages
    /\ portrait' = r.portrait
    /\ fault' = r.fault
    /\ form_rendered' = r.form_rendered

Init ==
    /\ store = <<>>
    /\ next_uuid = 1
    /\ api_key \in {"", "sk"}
    /\ path = "idle"
    /\ share_id = Absent
    /\ user_name = <<>>
    /\ user_inputs = NoInputs
    /\ http = "none"
    /\ http_requests = 0
    /\ response_text = <<>>
    /\ analysis_result = NoneVal
    /\ sheet = "none"
    /\ portrait_data = NoneVal
    /\ appended = 0
    /\ messages = {}
    /\ portrait = NoPortrait
    /\ fault = "none"
    /\ form_rendered = FALSE

----------------------------------------------------------------------------
(* main *)

\* AllAnswered without the strip(): blanks count as an answer
AllAnsweredNoStrip(inputs) == \A k \in ScoreKeySet : inputs[k] # <<>>

\* lines 530-531: all four answers non-empty after strip()
AllAnswered(inputs) == \A k \in ScoreKeySet : Strip(inputs[k]) # <<>>

\* if share_id: (line 431)
HasShareId(sid) == sid.t = "str" /\ sid.s # <<>>

\* lines 549-563
BuildRow(ts, sid, name, inputs, result) ==
    <<ts, sid, JStr(name),
      JStr(inputs["innovation"]), JStr(inputs["collaboration"]),
      JStr(inputs["leadership"]), JStr(inputs["tech_acumen"]),
      Get(result.m.sd, "innovation", EmptyStr),
      Get(result.m.sd, "collaboration", EmptyStr),
      Get(result.m.sd, "leadership", EmptyStr),
      Get(result.m.sd, "tech_acumen", EmptyStr),
      Get(result.m.f, "analysis", EmptyStr),
      Get(result.m.f, "golden_sentence", EmptyStr)>>

\* the exception analysis_result['scores'].get(...) raises at line 557
RowFault(result) ==
    CASE result.kind # "dict" -> "TypeError"
      [] result.m.f["scores"].t = "absent" -> "KeyError"
      [] result.m.f["scores"].t # "dict" -> "AttributeError"
      [] OTHER -> "none"

\* SaveAndShow displaying the portrait, share link included, whether or not
\* the append worked
SaveAndShowAlways(r, rows, ts, sid, outcome, img, qr) ==
    IF RowFault(r.analysis_result) # "none"
    THEN [run |-> [r EXCEPT !.fault = RowFault(r.analysis_result)], rows |-> rows]
    ELSE LET row == BuildRow(ts, sid, r.user_name, r.user_inputs, r.analysis_result)
             w == append_to_sheet(rows, outcome, row)
             d == display_portrait_results(JStr(r.user_name),
                                           r.analysis_result.m, sid, img, qr)
         IN  [rows |-> w.rows,
              run |->
                [r EXCEPT
                   !.sheet = outcome,
                   !.appended = Len(w.rows) - Len(rows),
                   !.messages =
                      r.messages \cup w.msgs \cup d.msgs \cup
                      (IF w.ok THEN {"success_saved"}
                       ELSE IF w.stop THEN {} ELSE {"err_save_failed"}),
                   !.analysis_result = DictVal(d.data),
                   !.portrait = d.portrait]]

\* lines 545-577, once call_deepseek_api has returned a truthy value:
\* build the row, append it, display only if the append worked
SaveAndShow(r, rows, ts, sid, outcome, img, qr) ==
    IF RowFault(r.analysis_result) # "none"
    THEN [run |-> [r EXCEPT !.fault = RowFault(r.analysis_result)], rows |-> rows]
    ELSE LET row == BuildRow(ts, sid, r.user_name, r.user_inputs, r.analysis_result)
             w == append_to_sheet(rows, outcome, row)
             d == display_portrait_results(JStr(r.user_name),
                                           r.analysis_result.m, sid, img, qr)
         IN  [rows |-> w.rows,
              run |->
                [r EXCEPT
                   !.sheet = outcome,
                   !.appended = Len(w.rows) - Len(rows),
                   !.messages =
                      r.messages \cup w.msgs \cup
                      (IF w.ok THEN {"success_saved"} \cup d.msgs
                       ELSE IF w.stop THEN {} ELSE {"err_save_failed"}),
                   !.analysis_result =
                      IF w.ok THEN DictVal(d.data) ELSE r.analysis_result,
                   !.portrait = IF w.ok THEN d.portrait ELSE NoPortrait]]

\* the run after call_deepseek_api returned api (lines 543-545)
Analysed(query, name, inputs, key, outcome, text, api) ==
    [Fresh("submit") EXCEPT
       !.share_id = query,
       !.user_name = name,
       !.user_inputs = inputs,
       !.form_rendered = TRUE,
       !.http = IF key = "" THEN "none" ELSE outcome,
       !.http_requests = api.requests,
       !.response_text = IF key # "" /\ outcome = "ok" THEN text ELSE <<>>,
       !.analysis_result = api.result,
       !.messages = api.msgs]

\* A form submission: lines 521-577, in a run whose share_id query parameter
\* (line 428) is missing or empty, so that line 431 lets the form through
Submit ==
    \E query \in {q \in QueryParams : ~HasShareId(q)},
       name \in UserNames, inputs \in UserInputs :
        /\ name # <<>>
        /\ api_key' = api_key
        /\ IF ~AllAnswered(inputs)
           THEN /\ Finish([Fresh("submit") EXCEPT
                              !.share_id = query,
                              !.user_name = name, !.user_inputs = inputs,
                              !.form_rendered = TRUE,
                              !.messages = {"warn_incomplete"}])
                /\ UNCHANGED <<store, next_uuid>>
           ELSE \E outcome \in HttpOutcomes, text \in ResponseTexts :
                  LET api == call_deepseek_api(api_key, outcome, text)
                      r == Analysed(query, name, inputs, api_key, outcome, text, api)
                  IN  IF ~Truthy(api.result)
                      THEN /\ Finish([r EXCEPT !.messages =
                                         r.messages \cup {"err_analysis_failed"}])
                           /\ UNCHANGED <<store, next_uuid>>
                      ELSE /\ next_uuid <= MaxIds
                           /\ next_uuid' = next_uuid + 1
                           /\ \E ts \in Timestamps, so \in SheetOutcomes,
                                 img \in ImageOutcomes, qr \in QrOutcomes :
                                LET e == SaveAndShow(r, store, ts, Uuid(next_uuid),
                                                     so, img, qr)
                                IN  /\ Finish(e.run)
                                    /\ store' = e.rows

\* ShareRun without the st.stop() calls: the script goes on to the form
ShareRunNoStop(rows, outcome, sid, img, qr) ==
    LET g == get_record_by_share_id(rows, outcome, sid)
        r == [Fresh("share") EXCEPT
                !.share_id = sid, !.sheet = outcome, !.messages = g.msgs,
                !.portrait_data = g.record, !.form_rendered = ~g.stop]
        d == display_portrait_results(Get(g.record.m.f, "user_name", Anonymous),
                                      g.record.m, sid, img, qr)
    IN  IF Truthy(g.record)
        THEN [r EXCEPT !.portrait = d.portrait,
                       !.portrait_data = DictVal(d.data),
                       !.messages = r.messages \cup d.msgs]
        ELSE IF g.stop
        THEN r
        ELSE [r EXCEPT !.messages = r.messages \cup {"warn_not_found"}]

\* lines 431-446: the run of a page load whose URL carries share_id sid;
\* both branches end in st.stop(), so the form below is never reached
ShareRun(rows, outcome, sid, img, qr) ==
    LET g == get_record_by_share_id(rows, outcome, sid)
        r == [Fresh("share") EXCEPT
                !.share_id = sid, !.sheet = outcome, !.messages = g.msgs,
                !.portrait_data = g.record]
        d == display_portrait_results(Get(g.record.m.f, "user_name", Anonymous),
                                      g.record.m, sid, img, qr)
    IN  IF Truthy(g.record)
        THEN [r EXCEPT !.portrait = d.portrait,
                       !.portrait_data = DictVal(d.data),
                       !.messages = r.messages \cup d.msgs]
        ELSE IF g.stop
        THEN r
        ELSE [r EXCEPT !.messages = r.messages \cup {"warn_not_found"}]

\* A page load: lines 427-446 when the URL carries a share_id, else the
\* nickname box and, once a nickname is typed, the form (lines 462-519)
LoadPage ==
    \E sid \in QueryParams, name \in UserNames :
        /\ UNCHANGED <<store, next_uuid, api_key>>
        /\ IF ~HasShareId(sid)
           THEN Finish([Fresh("form") EXCEPT
                          !.share_id = sid, !.user_name = name,
                          !.form_rendered = (name # <<>>)])
           ELSE \E so \in SheetOutcomes, img \in ImageOutcomes, qr \in QrOutcomes :
                  Finish(ShareRun(store, so, sid, img, qr))

Next == Submit \/ LoadPage

Spec == Init /\ [][Next]_vars

----------------------------------------------------------------------------
(* Properties *)

\* a text with at least one character that is not whitespace
NonBlank(str) == \E i \in 1..Len(str) : str[i] \notin Whitespace

\* call_deepseek_api was entered in the run: it sent a request, or it
\* stopped at the missing key
LlmCalled == http_requests > 0 \/ "err_api_key" \in messages

\* the value call_deepseek_api returned in the run, before anything rewrote it
Returned == JsonLoads(response_text).val

\* the stored rows whose share_id cell is sid
RowsWith(sid) == {i \in 1..Len(store) : store[i][2] = sid}

\* C1: on a form submission the run goes on to the LLM call iff each of the
\* four answers has a non-whitespace character; otherwise the validation
\* warning is shown and there is neither an LLM call nor a store append.
C1_ValidationGate ==
    path = "submit" =>
        /\ LlmCalled <=> (\A k \in ScoreKeySet : NonBlank(user_inputs[k]))
        /\ (\E k \in ScoreKeySet : ~NonBlank(user_inputs[k])) =>
              /\ "warn_incomplete" \in messages
              /\ http_requests = 0
              /\ appended = 0
              /\ ~portrait.shown

\* a submission with a whitespace-only answer was rejected with the warning
C1_Witness ==
    /\ path = "submit"
    /\ user_inputs["leadership"] = <<" ">>
    /\ NonBlank(user_inputs["innovation"])
    /\ "warn_incomplete" \in messages

\* C2: when the analysis succeeded and the store append failed, the failure
\* is reported and the analysis result is still shown.
C2_ShownThoughNotSaved ==
    (/\ path = "submit"
     /\ Truthy(analysis_result)
     /\ fault = "none"
     /\ sheet \in {"raise", "stop"}) =>
        /\ portrait.shown
        /\ messages \cap {"err_save_failed", "err_sheet_write",
                          "err_sheet_unavailable"} # {}

\* C3: no run ends in an unhandled fault, and every submission or
\* share-link visit ends with a message or a portrait on the page.
C3_NoUnhandledFault ==
    /\ fault = "none"
    /\ path \in {"submit", "share"} => (messages # {} \/ portrait.shown)

\* Result Parser step 2: the span from the first "{" to the last "}" of the
\* text, i.e. from its first to its last JSON object
ExtractSpan(text) ==
    LET objs == {i \in 1..Len(text) :
                    text[i].tok = "json" /\ text[i].val.kind = "dict"}
    IN  IF objs = {} THEN <<>>
        ELSE SubSeq(text,
                    CHOOSE i \in objs : \A j \in objs : i <= j,
                    CHOOSE i \in objs : \A j \in objs : j <= i)

\* C4: when the reply text is not JSON but holds a JSON object inside prose,
\* the run continues with that object; the malformed-response error is
\* signalled only when both the direct and the extracted parse fail.
C4_TwoPhaseParse ==
    (path = "submit" /\ http = "ok") =>
        /\ (~JsonLoads(response_text).ok /\ JsonLoads(ExtractSpan(response_text)).ok) =>
              analysis_result = JsonLoads(ExtractSpan(response_text)).val
        /\ "err_json" \in messages =>
              (~JsonLoads(response_text).ok
               /\ ~JsonLoads(ExtractSpan(response_text)).ok)

\* C5: for every parsed reply the run raises nothing, and each of the four
\* scores it shows is an integer: int(value) where that works, 0 where the
\* key is missing or the value is not a number.
C5_NormalizationTotal ==
    (path = "submit" /\ http = "ok" /\ JsonLoads(response_text).ok) =>
        /\ fault = "none"
        /\ portrait.shown =>
              \A k \in ScoreKeySet :
                  /\ portrait.metrics[k].t = "int"
                  /\ portrait.metrics[k] =
                        IntOrZero(Get(Returned.m.sd, k, JInt(0)))

\* C6: the chart of a displayed portrait is the five points
\* (innovation, collaboration, leadership, tech_acumen, innovation) with the
\* displayed scores as values, unmodified, a score that is missing plotted
\* as 0, and the fifth point equal to the first.
C6_ChartClosure ==
    portrait.shown =>
        /\ Len(portrait.fig.r) = 5
        /\ Len(portrait.fig.theta) = 5
        /\ \A i \in 1..4 :
              /\ portrait.fig.theta[i] = categories[i]
              /\ portrait.fig.r[i] =
                    IF portrait.metrics[ScoreKeys[i]] = NotAvailable
                    THEN JInt(0)
                    ELSE portrait.metrics[ScoreKeys[i]]
        /\ portrait.fig.theta[5] = categories[1]
        /\ portrait.fig.r[5] = portrait.fig.r[1]

\* the chart of scores (90, 75, 60, 85) is on the page
C6_Witness ==
    /\ portrait.shown
    /\ portrait.fig.r = <<JInt(90), JInt(75), JInt(60), JInt(85), JInt(90)>>

\* C7: with the store available, a lookup by the share_id of an appended row
\* returns that row field for field, a lookup by an identifier that was never
\* appended returns nothing, and the row a submission appends holds the
\* submitted nickname, answers and the reply's scores, analysis and slogan.
C7_RoundTrip ==
    /\ (path = "share" /\ sheet = "ok") =>
          /\ \A i \in RowsWith(share_id) :
                /\ portrait_data.kind = "dict"
                /\ \A j \in 1..Len(Header) :
                      portrait_data.m.f[Header[j]] = store[i][j]
          /\ RowsWith(share_id) = {} => portrait_data = NoneVal
    /\ (path = "submit" /\ appended = 1) =>
          LET row == store[Len(store)]
          IN  /\ Len(row) = Len(Header)
              /\ row[3] = JStr(user_name)
              /\ \A i \in 1..4 :
                    /\ row[3 + i] = JStr(user_inputs[ScoreKeys[i]])
                    /\ row[7 + i] =
                          Get(Returned.m.sd, ScoreKeys[i], EmptyStr)
              /\ row[12] = Get(Returned.m.f, "analysis", EmptyStr)
              /\ row[13] = Get(Returned.m.f, "golden_sentence", EmptyStr)

\* C8 as stated: on a page load with a share identifier there is no LLM
\* request, no append and no form, and the stored record with that
\* identifier is displayed if there is one, else the not-found warning.
C8_ReplayAsStated ==
    path = "share" =>
        /\ http_requests = 0
        /\ appended = 0
        /\ ~form_rendered
        /\ IF RowsWith(share_id) # {}
           THEN portrait.shown
           ELSE "warn_not_found" \in messages

\* C8 amended: on a page load with a share identifier there is no LLM
\* request, no append and no form in any case; when the sheet read works the
\* stored record with that identifier is displayed if there is one, else the
\* not-found warning; when the read raises the lookup error and the
\* not-found warning are shown; when the worksheet cannot be opened the run
\* stops on that error.
C8_Replay ==
    path = "share" =>
        /\ http_requests = 0
        /\ appended = 0
        /\ ~form_rendered
        /\ ~LlmCalled
        /\ sheet = "ok" =>
              IF RowsWith(share_id) # {}
              THEN /\ portrait.shown
                   /\ \E i \in RowsWith(share_id) :
                         /\ portrait.user_name = store[i][3]
                         /\ portrait.analysis_text = store[i][12]
                         /\ portrait.golden_sentence = store[i][13]
              ELSE "warn_not_found" \in messages /\ ~portrait.shown
        /\ sheet = "raise" =>
              /\ {"err_sheet_lookup", "warn_not_found"} \subseteq messages
              /\ ~portrait.shown
        /\ sheet = "stop" =>
              messages = {"err_sheet_unavailable"} /\ ~portrait.shown

\* a stored record was replayed from its share link
C8_Witness ==
    /\ path = "share"
    /\ sheet = "ok"
    /\ RowsWith(share_id) # {}
    /\ portrait.shown
    /\ portrait.share_id = share_id

\* C9: with the API key missing, a submission sends no HTTP request and
\* appends no row, and a complete submission shows the configuration error.
C9_NoKeyNoRequest ==
    (path = "submit" /\ api_key = "") =>
        /\ http_requests = 0
        /\ http = "none"
        /\ appended = 0
        /\ (\A k \in ScoreKeySet : NonBlank(user_inputs[k])) =>
              "err_api_key" \in messages

\* a complete submission met the missing key
C9_Witness ==
    /\ path = "submit"
    /\ api_key = ""
    /\ \A k \in ScoreKeySet : NonBlank(user_inputs[k])
    /\ "err_api_key" \in messages
    /\ "err_analysis_failed" \in messages

\* C10: a run sends at most one LLM request and appends at most one row, a
\* row is appended only by a submission whose analysis succeeded, nothing is
\* re-attempted after a failure, and the store changes only by one row being
\* added at its end.
C10_AtMostOnce ==
    /\ [](/\ http_requests <= 1
          /\ appended <= 1
          /\ appended = 1 =>
                (path = "submit" /\ http = "ok" /\ Truthy(analysis_result))
          /\ ~Truthy(analysis_result) => appended = 0
          /\ sheet \in {"raise", "stop"} => appended = 0)
    /\ [][store' # store =>
            /\ Len(store') = Len(store) + 1
            /\ SubSeq(store', 1, Len(store)) = store
            /\ path' = "submit"
            /\ appended' = 1]_vars

\* a second submission saved its row after one request
C10_Witness ==
    /\ path = "submit"
    /\ http_requests = 1
    /\ appended = 1
    /\ Len(store) = 2

\* a value that renders as nothing: an empty or whitespace-only string
RendersBlank(v) == v.t = "absent" \/ (v.t = "str" /\ ~NonBlank(v.s))

\* C11: whenever a portrait is displayed, after a submission or from a share
\* link, the analysis text and the slogan it shows are not blank, and they
\* are the fixed fallback strings when the reply did not contain them.
C11_NeverBlank ==
    portrait.shown =>
        /\ ~RendersBlank(portrait.analysis_text)
        /\ ~RendersBlank(portrait.golden_sentence)
        /\ path = "submit" =>
              /\ analysis_result.m.f["analysis"].t = "absent" =>
                    portrait.analysis_text = DefaultAnalysis
              /\ analysis_result.m.f["golden_sentence"].t = "absent" =>
                    portrait.golden_sentence = DefaultGolden

\* C12: a share link for identifier X is on the page only if a row with
\* share_id X is in the store: after a submission only when its analysis
\* succeeded and its own row, carrying the identifier just generated, was
\* appended; on a replay only when the lookup returned the record with that
\* identifier. A portrait that is displayed always carries its link.
C12_LinkOnlyIfStored ==
    /\ portrait.share_id # Absent =>
          /\ portrait.shown
          /\ RowsWith(portrait.share_id) # {}
    /\ portrait.shown => portrait.share_id # Absent
    /\ (path = "submit" /\ portrait.shown) =>
          /\ Truthy(analysis_result)
          /\ sheet = "ok"
          /\ appended = 1
          /\ store[Len(store)][2] = portrait.share_id
          /\ portrait.share_id = Uuid(next_uuid - 1)
    /\ (path = "share" /\ portrait.shown) =>
          /\ portrait.share_id = share_id
          /\ portrait_data.kind = "dict"
          /\ portrait_data.m.f["share_id"] = share_id

\* the second submission shows the link of the row it has just stored
C12_Witness ==
    /\ path = "submit"
    /\ portrait.shown
    /\ Len(store) = 2
    /\ portrait.share_id = store[2][2]
    /\ portrait.share_id # store[1][2]

====
